---- MODULE Spec2Model ----
(***************************************************************************)
(* Whisper speech-to-text service (backend/whisper-service/main.py).       *)
(*                                                                         *)
(* The state is the process-wide model handle, the service's lifecycle,    *)
(* the temporary files on disk and the coroutine of every in-flight        *)
(* request.  The handlers are `async def` coroutines on one event loop:    *)
(* a coroutine runs without interruption until it awaits, so `current`     *)
(* names the coroutine that holds the loop and every other coroutine,      *)
(* the lifespan's shutdown included, runs only while `current` is 0.       *)
(* The only await of a transcription handler is `await audio.read()`.      *)
(*                                                                         *)
(* Strings whose content matters (file names, segment texts) are           *)
(* sequences of one-character strings.                                     *)
(***************************************************************************)
EXTENDS Integers, Sequences, FiniteSets, TLC

VARIABLES
    phase,          \* lifespan: "init", "running", "stopped", "startup_failed"
    whisper_model,  \* the global of line 21: "None" or "WhisperModel"
    loadOutcome,    \* what load_whisper_model() did for its caller
    files,          \* the temporary files that exist on disk
    current,        \* the request whose coroutine holds the event loop, or 0
    req,            \* request slot -> the locals of its handler coroutine
    health,         \* the last HealthResponse returned by /health
    load            \* the inputs offered to the service (fixed by Init)

vars == <<phase, whisper_model, loadOutcome, files, current, req, health, load>>

----------------------------------------------------------------------------
(* Bounds of the model *)

NumRequests == 2    \* request slots that can be in flight together
MaxFiles == 2       \* temporary files that can exist on disk together
MaxNameLen == 3     \* length of an enumerated upload file name
MaxSegLen == 3      \* length of an enumerated segment text
MaxSegs == 2        \* segments the model yields for one audio file

----------------------------------------------------------------------------
(* Strings *)

Chars(s) == {s[i] : i \in 1..Len(s)}

StringsUpTo(alphabet, n) == UNION {[1..k -> alphabet] : k \in 0..n}

\* str.isspace() on the characters the model enumerates
Whitespace == {" ", "\t", "\n"}

\* Optional[str]: None is the empty tuple, a string s is <<s>>
None == <<>>
Some(s) == <<s>>

clip == <<"c", "l", "i", "p">>
clip_mp3 == <<"c", "l", "i", "p", ".", "m", "p", "3">>
audio_webm == <<"a", "u", "d", "i", "o", ".", "w", "e", "b", "m">>
dot_webm == <<".", "w", "e", "b", "m">>

\* str.rfind(c), one-based: the last index of c in p, 0 when c is not in p
rfind(p, c) ==
    LET hits == {i \in 1..Len(p) : p[i] = c}
    IN  IF hits = {} THEN 0 ELSE CHOOSE i \in hits : \A j \in hits : j <= i

\* the while loop of genericpath._splitext: the first index in
\* filenameIndex..dotIndex-1 that holds no dot, 0 when all of them are dots
RECURSIVE SkipLeadingDots(_, _, _)
SkipLeadingDots(p, filenameIndex, dotIndex) ==
    IF filenameIndex >= dotIndex THEN 0
    ELSE IF p[filenameIndex] # "." THEN filenameIndex
    ELSE SkipLeadingDots(p, filenameIndex + 1, dotIndex)

\* splitext that takes the last dot of the last component as the start of
\* the extension even when only dots precede it
splitext_KeepsLeadingDots(p) ==
    LET sepIndex == rfind(p, "/")
        dotIndex == rfind(p, ".")
    IN  IF dotIndex > sepIndex
        THEN <<SubSeq(p, 1, dotIndex - 1), SubSeq(p, dotIndex, Len(p))>>
        ELSE <<p, <<>>>>

\* os.path.splitext(p) of posixpath (sep "/", no altsep): <<root, ext>>
splitext(p) ==
    LET sepIndex == rfind(p, "/")
        dotIndex == rfind(p, ".")
        nonDot == IF dotIndex > sepIndex
                  THEN SkipLeadingDots(p, sepIndex + 1, dotIndex)
                  ELSE 0
    IN  IF nonDot # 0
        THEN <<SubSeq(p, 1, dotIndex - 1), SubSeq(p, dotIndex, Len(p))>>
        ELSE <<p, <<>>>>

\* filename = audio.filename or "audio.webm"   (None and "" are falsy)
FilenameOrDefault(filename) ==
    IF filename = None \/ filename = Some(<<>>) THEN audio_webm ELSE filename[1]

\* ext = os.path.splitext(filename)[1] or ".webm"
ExtOf(filename) ==
    LET e == splitext(FilenameOrDefault(filename))[2]
    IN  IF e = <<>> THEN dot_webm ELSE e

\* str.strip(): the index of the first character that is not whitespace
RECURSIVE LeftIndex(_, _)
LeftIndex(s, i) ==
    IF i > Len(s) THEN i
    ELSE IF s[i] \in Whitespace THEN LeftIndex(s, i + 1)
    ELSE i

\* str.strip(): the index of the last character, at or after i, that is not
\* whitespace
RECURSIVE RightIndex(_, _, _)
RightIndex(s, j, i) ==
    IF j < i THEN j
    ELSE IF s[j] \in Whitespace THEN RightIndex(s, j - 1, i)
    ELSE j

\* str.lstrip() in the place of str.strip()
strip_LeftOnly(s) == SubSeq(s, LeftIndex(s, 1), Len(s))

strip(s) ==
    LET i == LeftIndex(s, 1)
        j == RightIndex(s, Len(s), i)
    IN  SubSeq(s, i, j)

\* "".join(parts)
RECURSIVE join(_)
join(parts) ==
    IF parts = <<>> THEN <<>> ELSE Head(parts) \o join(Tail(parts))

----------------------------------------------------------------------------
(* Inputs *)

NameChars == {"a", ".", "/"}
SegChars == {" ", "x"}
Languages == {"zh", "en"}
Endpoints == {"transcribe", "transcribe_stream"}

\* what `from faster_whisper import WhisperModel` can do
ImportOutcomes == {"ok", "ImportError", "OtherError"}
\* what WhisperModel(...) can do
ConstructOutcomes == {"ok", "Exception"}

\* the text of the exception each failing call raises
ReadError == "upload stream is closed"
WriteError == "No space left on device"
ModelError == "Invalid data found when processing input"
IterError == "CUDA failed with error out of memory"
NoneTypeError == "'NoneType' object has no attribute 'transcribe'"

\* concurrent requests to both endpoints with a few named uploads; reads,
\* writes, model calls and unlinks may fail
ServiceLoad ==
    [slots |-> 1..NumRequests,
     endpoints |-> Endpoints,
     names |-> {None, Some(clip_mp3)},
     texts |-> {<<" ", "x">>},
     langs |-> Languages,
     segs  |-> 1,
     faults |-> TRUE]

\* one request at a time, every upload file name up to MaxNameLen, no call
\* fails
NamesLoad ==
    [slots |-> {1},
     endpoints |-> Endpoints,
     names |-> {None, Some(clip), Some(clip_mp3)}
               \cup {Some(n) : n \in StringsUpTo(NameChars, MaxNameLen)},
     texts |-> {<<"x">>},
     langs |-> {"zh"},
     segs  |-> 1,
     faults |-> FALSE]

\* one request at a time, every segment text up to MaxSegLen, no call fails
TextLoad ==
    [slots |-> {1},
     endpoints |-> Endpoints,
     names |-> {Some(clip_mp3)},
     texts |-> StringsUpTo(SegChars, MaxSegLen),
     langs |-> {"zh"},
     segs  |-> MaxSegs,
     faults |-> FALSE]

----------------------------------------------------------------------------
(* State *)

Slots == 1..NumRequests

NoTmp == [stem |-> 0, suffix |-> <<>>]

\* the locals of a handler coroutine before the request arrives
Idle ==
    [pc |-> "idle", endpoint |-> "transcribe", filename |-> None,
     ext |-> <<>>, tmp |-> NoTmp, seenModel |-> "unchecked",
     readCalled |-> FALSE, invokedWith |-> "not invoked",
     failedAt |-> "none", exc |-> "", produced |-> <<>>,
     segments |-> <<>>, full_text |-> <<>>,
     status |-> 0, detail |-> <<>>, text |-> <<>>, language |-> ""]

NoHealth == [status |-> "", model_loaded |-> FALSE, model_name |-> ""]

InitWith(l) ==
    /\ phase = "init"
    /\ whisper_model = "None"
    /\ loadOutcome = "pending"
    /\ files = {}
    /\ current = 0
    /\ req = [r \in Slots |-> Idle]
    /\ health = NoHealth
    /\ load = l

----------------------------------------------------------------------------
(* Model holder: load_whisper_model and the lifespan *)

\* load_whisper_model() with the global holding wm: the new value of the
\* global and what the caller gets.  Only ImportError is caught around the
\* import (line 43); every Exception is caught around the constructor
\* (line 65), and the global is assigned only when the constructor returns.
load_whisper_model(wm, imported, constructed) ==
    IF imported = "ImportError"
    THEN [model |-> wm, outcome |-> "returned None"]
    ELSE IF imported # "ok"
    THEN [model |-> wm, outcome |-> "raised"]
    ELSE IF constructed = "ok"
    THEN [model |-> "WhisperModel", outcome |-> "returned model"]
    ELSE [model |-> wm, outcome |-> "returned None"]

\* lifespan, up to the yield: an exception of load_whisper_model leaves the
\* context manager before the yield, and the application does not start
Startup ==
    /\ phase = "init"
    /\ \E imported \in ImportOutcomes, constructed \in ConstructOutcomes :
         LET r == load_whisper_model(whisper_model, imported, constructed)
         IN  /\ whisper_model' = r.model
             /\ loadOutcome' = r.outcome
             /\ phase' = IF r.outcome = "raised"
                         THEN "startup_failed" ELSE "running"
    /\ UNCHANGED <<files, current, req, health, load>>

\* lifespan, after the yield.  It runs on the event loop like every other
\* coroutine; nothing in it waits for the handlers that are suspended.
Shutdown ==
    /\ phase = "running"
    /\ current = 0
    /\ whisper_model' = "None"
    /\ phase' = "stopped"
    /\ UNCHANGED <<loadOutcome, files, current, req, health, load>>

----------------------------------------------------------------------------
(* /health *)

\* bool(whisper_model): None is falsy, a WhisperModel object is truthy
Truthy(wm) == wm # "None"

\* a health check that reports "ok" whatever the handle is
health_check_AlwaysOk(wm) ==
    [status |-> "ok", model_loaded |-> (wm # "None"), model_name |-> "small"]

health_check(wm) ==
    [status |-> IF Truthy(wm) THEN "ok" ELSE "model_not_loaded",
     model_loaded |-> (wm # "None"),
     model_name |-> "small"]

HealthCheck ==
    /\ phase = "running"
    /\ current = 0
    /\ health' = health_check(whisper_model)
    /\ UNCHANGED <<phase, whisper_model, loadOutcome, files, current, req, load>>

----------------------------------------------------------------------------
(* /transcribe and /transcribe-stream *)

\* Where an exception e raised at `site` takes the handler.
\* /transcribe: the except of line 136 turns a failure inside the `with`
\* into HTTPException(400), which leaves the handler before the try of line
\* 139 is entered; the except of line 171 turns a failure inside that try
\* into HTTPException(500) and the finally of line 174 runs.
\* /transcribe-stream has no except: the exception leaves the handler (after
\* the finally when it was raised inside the try of line 205) and the
\* framework answers 500 with its fixed body.
\* /transcribe with one try around the whole body: every failure is a 500
Raise_SingleTry(rq, site, e) ==
    LET inWith == site \in {"read", "write"}
        next == IF inWith THEN "respond" ELSE "unlink"
    IN  [rq EXCEPT !.failedAt = site, !.exc = e, !.pc = next,
                   !.status = 500,
                   !.detail = IF rq.endpoint = "transcribe"
                              THEN <<"Transcription failed: ", e>>
                              ELSE <<"Internal Server Error">>]

Raise(rq, site, e) ==
    LET inWith == site \in {"read", "write"}
        next == IF inWith THEN "respond" ELSE "unlink"
    IN  IF rq.endpoint = "transcribe"
        THEN [rq EXCEPT !.failedAt = site, !.exc = e, !.pc = next,
                        !.status = IF inWith THEN 400 ELSE 500,
                        !.detail = IF inWith
                                   THEN <<"Failed to read audio: ", e>>
                                   ELSE <<"Transcription failed: ", e>>]
        ELSE [rq EXCEPT !.failedAt = site, !.exc = e, !.pc = next,
                        !.status = 500,
                        !.detail = <<"Internal Server Error">>]

\* a request reaches its handler: the coroutine starts and takes the loop
Arrive(r) ==
    /\ phase = "running"
    /\ current = 0
    /\ r \in load.slots
    /\ req[r].pc = "idle"
    /\ Cardinality(files) < MaxFiles
    /\ \E ep \in load.endpoints, fn \in load.names :
         req' = [req EXCEPT ![r] = [Idle EXCEPT !.pc = "check",
                                                 !.endpoint = ep,
                                                 !.filename = fn]]
    /\ current' = r
    /\ UNCHANGED <<phase, whisper_model, loadOutcome, files, health, load>>

\* a handler without the check of the handle
CheckModel_Missing(r) ==
    /\ current = r
    /\ req[r].pc = "check"
    /\ req' = [req EXCEPT ![r].seenModel = whisper_model, ![r].pc = "ext"]
    /\ UNCHANGED <<phase, whisper_model, loadOutcome, files, current, health, load>>

\* a handler that loads the model on demand when the handle is absent
CheckModel_Reloads(r) ==
    /\ current = r
    /\ req[r].pc = "check"
    /\ req' = [req EXCEPT ![r].seenModel = "WhisperModel", ![r].pc = "ext"]
    /\ whisper_model' = "WhisperModel"
    /\ UNCHANGED <<phase, loadOutcome, files, current, health, load>>

\* lines 120-124 and 191-195
CheckModel(r) ==
    /\ current = r
    /\ req[r].pc = "check"
    /\ req' = [req EXCEPT ![r] =
         IF whisper_model = "None"
         THEN [@ EXCEPT !.seenModel = whisper_model,
                        !.status = 503,
                        !.detail = IF req[r].endpoint = "transcribe"
                          THEN <<"Whisper model not loaded. Please check server logs.">>
                          ELSE <<"Whisper model not loaded">>,
                        !.pc = "respond"]
         ELSE [@ EXCEPT !.seenModel = whisper_model, !.pc = "ext"]]
    /\ UNCHANGED <<phase, whisper_model, loadOutcome, files, current, health, load>>

\* lines 127-128 and 197-198
ComputeExt(r) ==
    /\ current = r
    /\ req[r].pc = "ext"
    /\ req' = [req EXCEPT ![r].ext = ExtOf(req[r].filename), ![r].pc = "mktemp"]
    /\ UNCHANGED <<phase, whisper_model, loadOutcome, files, current, health, load>>

\* lines 131 and 200: NamedTemporaryFile(delete=False, suffix=ext) creates a
\* file under a name no existing file has
CreateTmp(r) ==
    /\ current = r
    /\ req[r].pc = "mktemp"
    /\ \E stem \in 1..MaxFiles :
         /\ \A f \in files : f.stem # stem
         /\ LET name == [stem |-> stem, suffix |-> req[r].ext]
            IN  /\ files' = files \cup {name}
                /\ req' = [req EXCEPT ![r].tmp = name, ![r].pc = "read"]
    /\ UNCHANGED <<phase, whisper_model, loadOutcome, current, health, load>>

\* lines 133 and 201: `await audio.read()` suspends the coroutine
AwaitRead(r) ==
    /\ current = r
    /\ req[r].pc = "read"
    /\ req' = [req EXCEPT ![r].pc = "reading", ![r].readCalled = TRUE]
    /\ current' = 0
    /\ UNCHANGED <<phase, whisper_model, loadOutcome, files, health, load>>

\* the await of audio.read() returns the bytes or raises
ReadDone(r) ==
    /\ current = 0
    /\ req[r].pc = "reading"
    /\ current' = r
    /\ \/ req' = [req EXCEPT ![r].pc = "write"]
       \/ /\ load.faults
          /\ req' = [req EXCEPT ![r] = Raise(@, "read", ReadError)]
    /\ UNCHANGED <<phase, whisper_model, loadOutcome, files, health, load>>

\* lines 134-135 and 202-203: tmp.write(content); tmp_path = tmp.name; the
\* `with` closes the file and leaves it on disk (delete=False)
WriteTmp(r) ==
    /\ current = r
    /\ req[r].pc = "write"
    /\ \/ req' = [req EXCEPT ![r].pc = "invoke"]
       \/ /\ load.faults
          /\ req' = [req EXCEPT ![r] = Raise(@, "write", WriteError)]
    /\ UNCHANGED <<phase, whisper_model, loadOutcome, files, current, health, load>>

\* lines 141-148 and 206-213: whisper_model.transcribe(tmp_path, ...) through
\* the global as it is now; on None the attribute lookup raises
Invoke(r) ==
    /\ current = r
    /\ req[r].pc = "invoke"
    /\ IF whisper_model = "None"
       THEN req' = [req EXCEPT ![r] =
                [Raise(@, "model", NoneTypeError) EXCEPT !.invokedWith = whisper_model]]
       ELSE \/ \E lang \in load.langs :
                 req' = [req EXCEPT ![r].invokedWith = whisper_model,
                                    ![r].language = lang,
                                    ![r].pc = "iterate"]
            \/ /\ load.faults
               /\ req' = [req EXCEPT ![r] =
                    [Raise(@, "model", ModelError) EXCEPT !.invokedWith = whisper_model]]
    /\ UNCHANGED <<phase, whisper_model, loadOutcome, files, current, health, load>>

\* lines 153-159 and 216-221: one round of `for segment in segments_list`:
\* the generator yields a segment, raises, or is exhausted
NextSegment(r) ==
    /\ current = r
    /\ req[r].pc = "iterate"
    /\ \/ /\ Len(req[r].produced) < load.segs
          /\ \E t \in load.texts :
               req' = [req EXCEPT
                 ![r].produced = Append(@, t),
                 ![r].segments = Append(@, strip(t)),
                 ![r].full_text = IF req[r].endpoint = "transcribe"
                                  THEN Append(@, strip(t)) ELSE @]
       \/ /\ load.faults
          /\ req' = [req EXCEPT ![r] = Raise(@, "iter", IterError)]
       \/ req' = [req EXCEPT ![r].pc = "build"]
    /\ UNCHANGED <<phase, whisper_model, loadOutcome, files, current, health, load>>

\* lines 161-170 and 223-227: the response body; /transcribe-stream has no
\* text field
BuildResponse(r) ==
    /\ current = r
    /\ req[r].pc = "build"
    /\ req' = [req EXCEPT ![r].text = IF req[r].endpoint = "transcribe"
                                      THEN join(req[r].full_text) ELSE @,
                          ![r].status = 200,
                          ![r].pc = "unlink"]
    /\ UNCHANGED <<phase, whisper_model, loadOutcome, files, current, health, load>>

\* lines 174-179 and 228-232: the finally; an error of os.unlink is dropped
Unlink(r) ==
    /\ current = r
    /\ req[r].pc = "unlink"
    /\ \/ files' = files \ {req[r].tmp}
       \/ load.faults /\ files' = files
    /\ req' = [req EXCEPT ![r].pc = "respond"]
    /\ UNCHANGED <<phase, whisper_model, loadOutcome, current, health, load>>

\* the coroutine ends: the response is what the request record holds in
\* "respond"; the slot is free for the next request
Respond(r) ==
    /\ current = r
    /\ req[r].pc = "respond"
    /\ req' = [req EXCEPT ![r] = Idle]
    /\ current' = 0
    /\ UNCHANGED <<phase, whisper_model, loadOutcome, files, health, load>>

Next ==
    \/ Startup
    \/ Shutdown
    \/ HealthCheck
    \/ \E r \in Slots :
         \/ Arrive(r)
         \/ CheckModel(r)
         \/ ComputeExt(r)
         \/ CreateTmp(r)
         \/ AwaitRead(r)
         \/ ReadDone(r)
         \/ WriteTmp(r)
         \/ Invoke(r)
         \/ NextSegment(r)
         \/ BuildResponse(r)
         \/ Unlink(r)
         \/ Respond(r)

Spec == InitWith(ServiceLoad) /\ [][Next]_vars
SpecNames == InitWith(NamesLoad) /\ [][Next]_vars
SpecText == InitWith(TextLoad) /\ [][Next]_vars

----------------------------------------------------------------------------
(* Properties *)

Responding(r) == req[r].pc = "respond"

\* C1: a request that created a temporary file has produced its response
\* only when that file no longer exists, on every exit path.
C1_TmpFileGoneAtResponse ==
    \A r \in Slots :
        (Responding(r) /\ req[r].tmp # NoTmp) => req[r].tmp \notin files

\* C2: a request that found the handle absent at entry ends with 503; it
\* never calls audio.read(), creates no temporary file and does not invoke
\* the model.
C2_AbsentHandleGives503 ==
    \A r \in Slots :
        req[r].seenModel = "None" =>
            /\ Responding(r)
            /\ req[r].status = 503
            /\ ~req[r].readCalled
            /\ req[r].tmp = NoTmp
            /\ req[r].invokedWith = "not invoked"

C2_Witness ==
    \E r \in Slots :
        /\ Responding(r)
        /\ req[r].endpoint = "transcribe_stream"
        /\ req[r].seenModel = "None"
        /\ req[r].status = 503
        /\ phase = "running"

\* C3: on /transcribe with the handle present at entry the status follows
\* the place of the failure: 400 for the upload read or the write to the
\* temporary file, 500 for the model call or the iteration of its segments,
\* 200 without a failure, and nothing else.
C3_StatusFollowsFailureSite ==
    \A r \in Slots :
        (/\ Responding(r)
         /\ req[r].endpoint = "transcribe"
         /\ req[r].seenModel = "WhisperModel") =>
            /\ req[r].failedAt \in {"read", "write"} => req[r].status = 400
            /\ req[r].failedAt \in {"model", "iter"} => req[r].status = 500
            /\ req[r].failedAt = "none" => req[r].status = 200
            /\ req[r].failedAt = "read" => req[r].status # 500
            /\ req[r].status \in {200, 400, 500}

C3_Witness ==
    \E r \in Slots :
        /\ Responding(r)
        /\ req[r].endpoint = "transcribe"
        /\ req[r].seenModel = "WhisperModel"
        /\ req[r].failedAt = "read"
        /\ req[r].status = 400

\* C4: in every state /health answers model_loaded = true and status "ok"
\* exactly when the handle is present, model_loaded = false and status
\* "model_not_loaded" exactly when it is absent; the response a call returns
\* is that answer and the call changes nothing else.
HealthAgrees(h, wm) ==
    /\ h.model_loaded = (wm # "None")
    /\ h.status = IF wm # "None" THEN "ok" ELSE "model_not_loaded"
    /\ (h.status = "ok") = h.model_loaded

C4_HealthReflectsHandle ==
    /\ [](HealthAgrees(health_check(whisper_model), whisper_model))
    /\ [][HealthCheck =>
            /\ HealthAgrees(health', whisper_model)
            /\ UNCHANGED <<phase, whisper_model, loadOutcome, files, current, req>>]_vars

C4_Witness ==
    /\ loadOutcome = "returned None"
    /\ whisper_model = "None"
    /\ health.status = "model_not_loaded"
    /\ health.model_loaded = FALSE
    /\ current = 0

\* C5: load_whisper_model never raises to its caller, so startup always
\* completes, and the handle afterwards is absent or the constructed model.
C5_LoadNeverRaises ==
    /\ loadOutcome # "raised"
    /\ phase # "startup_failed"
    /\ loadOutcome = "returned None" => (phase = "running" => whisper_model = "None")

\* C6: only startup and shutdown write the handle, and a handle that is
\* absent after startup stays absent.
C6_HandleWrittenOnlyByLifespan ==
    [][/\ whisper_model' # whisper_model =>
            \/ phase = "init" /\ phase' # "init"
            \/ phase = "running" /\ phase' = "stopped"
       /\ (phase # "init" /\ whisper_model = "None") => whisper_model' = "None"]_vars

C6_Witness ==
    /\ phase = "running"
    /\ whisper_model = "None"
    /\ health.status = "model_not_loaded"
    /\ \E r \in Slots :
         /\ Responding(r)
         /\ req[r].endpoint = "transcribe"
         /\ req[r].status = 503

\* t is s without its leading and trailing whitespace
IsTrimOf(t, s) ==
    \E i \in 1..Len(s) + 1, j \in 0..Len(s) :
        /\ t = SubSeq(s, i, j)
        /\ \A k \in 1..i - 1 : s[k] \in Whitespace
        /\ \A k \in j + 1..Len(s) : s[k] \in Whitespace
        /\ t = <<>> \/ (t[1] \notin Whitespace /\ t[Len(t)] \notin Whitespace)

\* the number of characters of parts[1..n]
RECURSIVE LenUpTo(_, _)
LenUpTo(parts, n) ==
    IF n = 0 THEN 0 ELSE LenUpTo(parts, n - 1) + Len(parts[n])

\* text is the parts one after the other, in order, with nothing between
IsConcatenation(text, parts) ==
    /\ Len(text) = LenUpTo(parts, Len(parts))
    /\ \A i \in 1..Len(parts) :
         SubSeq(text, LenUpTo(parts, i - 1) + 1, LenUpTo(parts, i)) = parts[i]

\* C7: in every 200 response of /transcribe there is one segment per model
\* segment, each the model segment's text trimmed, and text is the
\* concatenation of the segments' texts in order with no separator.
C7_TextIsJoinOfTrimmedSegments ==
    \A r \in Slots :
        (Responding(r) /\ req[r].endpoint = "transcribe" /\ req[r].status = 200) =>
            /\ Len(req[r].segments) = Len(req[r].produced)
            /\ \A i \in 1..Len(req[r].segments) :
                 IsTrimOf(req[r].segments[i], req[r].produced[i])
            /\ IsConcatenation(req[r].text, req[r].segments)

C7_Witness ==
    \E r \in Slots :
        /\ Responding(r)
        /\ req[r].endpoint = "transcribe"
        /\ req[r].status = 200
        /\ req[r].produced = << <<" ", "x", " ">>, <<"x", " ", "x">> >>
        /\ req[r].text = <<"x", "x", " ", "x">>

\* C8: every failure response caused by an exception, on either endpoint,
\* carries the text of that exception in its body.
C8_FailureCarriesExceptionText ==
    \A r \in Slots :
        (Responding(r) /\ req[r].failedAt # "none") =>
            req[r].exc \in Chars(req[r].detail)

\* d is the dot that starts the extension of s: the last dot of the last
\* path component, with a character that is not a dot before it in that
\* component
IsExtensionDot(s, d) ==
    /\ s[d] = "."
    /\ \A j \in d + 1..Len(s) : s[j] \notin {".", "/"}
    /\ \E k \in 1..d - 1 :
         /\ s[k] # "."
         /\ \A j \in k..d : s[j] # "/"

HasExtension(fn) ==
    fn # None /\ \E d \in 1..Len(fn[1]) : IsExtensionDot(fn[1], d)

\* C9: on both endpoints the suffix of the temporary file is the extension
\* of the uploaded file name when it has one ("clip.mp3" gives ".mp3") and
\* ".webm" when the name is absent, empty or without an extension.
C9_SuffixIsExtensionOrWebm ==
    \A r \in Slots :
        req[r].tmp # NoTmp =>
            LET fn == req[r].filename
                suffix == req[r].tmp.suffix
            IN  /\ HasExtension(fn) =>
                     \E d \in 1..Len(fn[1]) :
                         /\ IsExtensionDot(fn[1], d)
                         /\ suffix = SubSeq(fn[1], d, Len(fn[1]))
                /\ ~HasExtension(fn) => suffix = dot_webm
                /\ fn = Some(clip_mp3) => suffix = <<".", "m", "p", "3">>
                /\ fn \in {None, Some(<<>>), Some(clip)} => suffix = dot_webm

C9_Witness ==
    \E r \in Slots :
        /\ req[r].endpoint = "transcribe_stream"
        /\ req[r].filename = Some(clip_mp3)
        /\ req[r].tmp \in files
        /\ req[r].tmp.suffix = <<".", "m", "p", "3">>

====
